---------------------------- MODULE Spec2Model ----------------------------
(***************************************************************************)
(* A model of qp_shotgun/humann2/humann2.py: the HUMAnN2 command generator *)
(* (generate_humann2_analysis_commands) and the job orchestrator (humann2).*)
(*                                                                         *)
(* File paths are sequences of one-character strings, so that basename,    *)
(* lower, rsplit, rindex, sort and join are computed character by          *)
(* character as Python computes them.  A dict is the sequence of its       *)
(* <<key, value>> items in iteration order.                                *)
(***************************************************************************)
EXTENDS Naturals, Integers, Sequences, FiniteSets, TLC

VARIABLES
    forward_seqs,   \* the caller's list object passed as forward_seqs
    reverse_seqs,   \* the caller's list object passed as reverse_seqs
    has_reverse,    \* whether fps holds the key 'raw_reverse_seqs'
    map_file,       \* what get_sample_names_by_run_prefix(map_file) loads
    parameters,     \* the caller's parameters dict
    gen,            \* outcome of generate_humann2_analysis_commands
    pc,             \* position in humann2
    commands,       \* humann2's local: the generated commands
    i,              \* humann2's local: loop index of step 3
    log,            \* calls made to qclient.update_job_step and system_call
    result,         \* what humann2 returned (<<>> while it has not)
    exc,            \* the exception that left humann2, if one did
    fname,          \* a single file path (run-prefix extraction alone)
    rp              \* the run prefix extracted from fname

vars == <<forward_seqs, reverse_seqs, has_reverse, map_file, parameters, gen,
          pc, commands, i, log, result, exc, fname, rp>>

-----------------------------------------------------------------------------
(* Bounds of the model *)

\* longest forward / reverse file list
MaxFiles == 2

\* longest file name, in name pieces, for run-prefix extraction alone
MaxPieces == 4

-----------------------------------------------------------------------------
(* Python's str operations, on sequences of characters *)

Max(S) == CHOOSE m \in S : \A n \in S : n <= m

\* code points of the characters the model uses (str comparison is by code point)
Ord(c) ==
    CASE c = " " -> 32 [] c = "," -> 44 [] c = "." -> 46 [] c = "/" -> 47
      [] c = "1" -> 49 [] c = "2" -> 50 [] c = "3" -> 51
      [] c = "F" -> 70 [] c = "Q" -> 81
      [] c = "a" -> 97 [] c = "d" -> 100 [] c = "e" -> 101 [] c = "f" -> 102
      [] c = "g" -> 103 [] c = "o" -> 111 [] c = "q" -> 113 [] c = "r" -> 114
      [] c = "s" -> 115 [] c = "t" -> 116 [] c = "u" -> 117 [] c = "x" -> 120
      [] c = "z" -> 122

\* str.lower() on one character
LowerChar(c) == CASE c = "F" -> "f" [] c = "Q" -> "q" [] OTHER -> c

\* s.lower()
Lower(s) == [k \in 1..Len(s) |-> LowerChar(s[k])]

\* whether sub occurs in s at 0-based offset k
OccursAt(s, sub, k) ==
    /\ k + Len(sub) <= Len(s)
    /\ SubSeq(s, k + 1, k + Len(sub)) = sub

\* RIndex as index: the lowest offset instead of the highest
RIndex_First(s, sub) ==
    LET K == {k \in 0..Len(s) : OccursAt(s, sub, k)}
    IN  IF K = {} THEN -1 ELSE CHOOSE m \in K : \A n \in K : m <= n

\* s.rindex(sub): the highest 0-based offset of sub in s; -1 stands for the
\* ValueError raised when there is none
RIndex(s, sub) ==
    LET K == {k \in 0..Len(s) : OccursAt(s, sub, k)}
    IN  IF K = {} THEN -1 ELSE Max(K)

\* s.rsplit(sep, n) for a one-character sep: at most n splits, from the right
RECURSIVE RSplit(_, _, _)
RSplit(s, sep, n) ==
    LET D == {k \in 1..Len(s) : s[k] = sep}
    IN  IF n = 0 \/ D = {}
        THEN <<s>>
        ELSE LET d == Max(D)
             IN  RSplit(SubSeq(s, 1, d - 1), sep, n - 1)
                     \o <<SubSeq(s, d + 1, Len(s))>>

\* os.path.basename(p): what follows the last '/'
Basename(p) ==
    LET D == {k \in 1..Len(p) : p[k] = "/"}
    IN  IF D = {} THEN p ELSE SubSeq(p, Max(D) + 1, Len(p))

\* os.path.join(a, b)
PathJoin(a, b) ==
    IF Len(b) > 0 /\ b[1] = "/" THEN b
    ELSE IF Len(a) = 0 \/ a[Len(a)] = "/" THEN a \o b
    ELSE a \o <<"/">> \o b

\* a < b for str: by code point, a proper prefix first
RECURSIVE StrLess(_, _)
StrLess(a, b) ==
    IF Len(b) = 0 THEN FALSE
    ELSE IF Len(a) = 0 THEN TRUE
    ELSE IF a[1] = b[1] THEN StrLess(Tail(a), Tail(b))
    ELSE Ord(a[1]) < Ord(b[1])

RECURSIVE Insert(_, _)
Insert(x, sorted) ==
    IF sorted = <<>> THEN <<x>>
    ELSE IF StrLess(x, Head(sorted)) THEN <<x>> \o sorted
    ELSE <<Head(sorted)>> \o Insert(x, Tail(sorted))

\* the list after list.sort()
RECURSIVE Sorted(_)
Sorted(l) == IF l = <<>> THEN <<>> ELSE Insert(Head(l), Sorted(Tail(l)))

\* sep.join(l)
RECURSIVE Join(_, _)
Join(sep, l) ==
    IF l = <<>> THEN <<>>
    ELSE IF Len(l) = 1 THEN l[1]
    ELSE l[1] \o sep \o Join(sep, Tail(l))

DotFastq == <<".", "f", "a", "s", "t", "q">>
Fastq == <<"f", "a", "s", "t", "q">>
CommaSpace == <<",", " ">>

\* whether x is an element of the list l
InList(x, l) == \E k \in 1..Len(l) : l[k] = x

-----------------------------------------------------------------------------
(* Run-prefix extraction: basename, then the .fastq / .fastq.gz removal *)

\* [ok |-> FALSE] stands for the ValueError of rindex
RunPrefix(path) ==
    LET f == Basename(path)
    IN  IF InList(Fastq, RSplit(Lower(f), ".", 2))
        THEN LET k == RIndex(Lower(f), DotFastq)
             IN  IF k < 0 THEN [ok |-> FALSE, val |-> <<>>]
                 ELSE [ok |-> TRUE, val |-> SubSeq(f, 1, k)]
        ELSE [ok |-> TRUE, val |-> f]

-----------------------------------------------------------------------------
(* Python values and dicts *)

\* a parameter value: a str, an int, a bool or None
StrVal(s) == [ty |-> "str", v |-> s]
IntVal(n) == [ty |-> "int", v |-> n]
BoolVal(b) == [ty |-> "bool", v |-> b]
NoneVal == [ty |-> "none", v |-> "None"]

\* Truthy as a test for the empty string only
Truthy_NotEmptyStr(x) == CASE x.ty = "str" -> x.v # "" [] OTHER -> TRUE

\* the truth value of v in `if v`
Truthy(x) ==
    CASE x.ty = "str" -> x.v # ""
      [] x.ty = "int" -> x.v # 0
      [] x.ty = "bool" -> x.v
      [] x.ty = "none" -> FALSE

\* '%s' % v
Fmt(x) ==
    CASE x.ty = "str" -> x.v
      [] x.ty = "int" -> ToString(x.v)
      [] x.ty = "bool" -> IF x.v THEN "True" ELSE "False"
      [] x.ty = "none" -> "None"

\* a dict d is the sequence of its items <<key, value>>, in iteration order
DictKeys(d) == [k \in 1..Len(d) |-> d[k][1]]
DictHas(d, key) == \E k \in 1..Len(d) : d[k][1] = key
DictGet(d, key) == d[CHOOSE k \in 1..Len(d) : d[k][1] = key][2]

\* del d[key]
RECURSIVE DictDel(_, _)
DictDel(d, key) ==
    IF d = <<>> THEN <<>>
    ELSE IF Head(d)[1] = key THEN Tail(d)
    ELSE <<Head(d)>> \o DictDel(Tail(d), key)

\* a formatted message: the format string and its arguments
Msg(text, args) == [text |-> text, args |-> args]

-----------------------------------------------------------------------------
(* generate_humann2_analysis_commands *)

\* the caller's forward list after the call: sorted in place
ForwardAfter(fwd, rev) == Sorted(fwd)

\* whether the pairing check raises
PairingRaises(fwd, rev) == rev # <<>> /\ Len(fwd) # Len(rev)

\* ReverseAfter without the sort of the reverse list
ReverseAfter_Unsorted(fwd, rev) == rev

\* the caller's reverse list after the call: sorted in place unless the list
\* is empty or the pairing check raised first
ReverseAfter(fwd, rev) ==
    IF rev # <<>> /\ ~PairingRaises(fwd, rev) THEN Sorted(rev) ELSE rev

\* PairingMsg with the forward list given twice
PairingMsg_ForwardTwice(fwd, rev) ==
    Msg("Your reverse and forward files are of different length. Forward: %s. Reverse: %s.",
        <<Join(CommaSpace, fwd), Join(CommaSpace, fwd)>>)

\* the message of the pairing error; fwd is already sorted, rev is not
PairingMsg(fwd, rev) ==
    Msg("Your reverse and forward files are of different length. Forward: %s. Reverse: %s.",
        <<Join(CommaSpace, fwd), Join(CommaSpace, rev)>>)

\* the message of the unmatched-samples error
UnmatchedMsg(sn_by_rp) ==
    Msg("Some run_prefix values do not match your sample names: %s",
        <<Join(CommaSpace, DictKeys(sn_by_rp))>>)

\* the sample name recorded for the reverse file: the forward file's
SampleOfMate(sn_by_rp, f, fr) == DictGet(sn_by_rp, f)

\* Consume without the del
Consume_Kept(sn_by_rp, f) == sn_by_rp

\* the mapping after a forward file matched
Consume(sn_by_rp, f) == DictDel(sn_by_rp, f)

\* the body of the matching loop for index k (0-based in the code, 1-based
\* here); st holds samples, sn_by_rp and whether rindex raised
LoopBody(st, fwd, rev, k) ==
    LET fp == RunPrefix(fwd[k])
    IN  IF ~fp.ok THEN [st EXCEPT !.raised = TRUE]
        ELSE IF ~DictHas(st.sn_by_rp, fp.val) THEN st   \* KeyError: pass
        ELSE LET s == DictGet(st.sn_by_rp, fp.val)
                 one == <<fwd[k], fp.val, s>>
             IN  IF rev # <<>>
                 THEN LET frp == RunPrefix(rev[k])
                      IN  IF ~frp.ok THEN [st EXCEPT !.raised = TRUE]
                          ELSE [samples |-> st.samples \o
                                    <<one, <<rev[k], frp.val,
                                             SampleOfMate(st.sn_by_rp, fp.val, frp.val)>>>>,
                                sn_by_rp |-> Consume(st.sn_by_rp, fp.val),
                                raised |-> FALSE]
                 ELSE [samples |-> Append(st.samples, one),
                       sn_by_rp |-> Consume(st.sn_by_rp, fp.val),
                       raised |-> FALSE]

RECURSIVE Loop(_, _, _, _)
Loop(st, fwd, rev, k) ==
    IF k > Len(fwd) \/ st.raised THEN st
    ELSE Loop(LoopBody(st, fwd, rev, k), fwd, rev, k + 1)

\* one token of a command line: a flag and its quoted value
Tok(flag, val) == [flag |-> flag, val |-> val]

\* params: a token for each item of the dict whose value is truthy
RECURSIVE ParamTokens(_)
ParamTokens(d) ==
    IF d = <<>> THEN <<>>
    ELSE (IF Truthy(Head(d)[2])
          THEN <<Tok("--" \o Head(d)[1], Fmt(Head(d)[2]))>>
          ELSE <<>>) \o ParamTokens(Tail(d))

\* the command of one sample assignment <<ffn, fn, s>>
Command(sample, out_dir, params) ==
    <<Tok("--input", sample[1]),
      Tok("--output", PathJoin(out_dir, sample[2])),
      Tok("--output-basename", sample[3]),
      Tok("--output-format", "biom")>> \o params

\* the outcome of the call on the lists as the caller passed them: status is
\* "ok" (cmds returned), "mismatch", "unmatched" (the two ValueErrors the
\* function raises itself) or "rindex" (the ValueError of str.rindex)
Generate(fwd0, rev0, sn0, out_dir, params0) ==
    LET fwd == ForwardAfter(fwd0, rev0)
        rev == ReverseAfter(fwd0, rev0)
    IN  IF PairingRaises(fwd, rev0)
        THEN [status |-> "mismatch", cmds |-> <<>>, msg |-> PairingMsg(fwd, rev0)]
        ELSE LET st == Loop([samples |-> <<>>, sn_by_rp |-> sn0, raised |-> FALSE],
                            fwd, rev, 1)
             IN  IF st.raised
                 THEN [status |-> "rindex", cmds |-> <<>>,
                       msg |-> Msg("substring not found", <<>>)]
                 ELSE IF st.sn_by_rp # <<>>
                 THEN [status |-> "unmatched", cmds |-> <<>>,
                       msg |-> UnmatchedMsg(st.sn_by_rp)]
                 ELSE [status |-> "ok",
                       cmds |-> [k \in 1..Len(st.samples) |->
                                    Command(st.samples[k], out_dir,
                                            ParamTokens(params0))],
                       msg |-> Msg("", <<>>)]

NoException == [kind |-> "none", msg |-> Msg("", <<>>)]
NotExtracted == [done |-> FALSE, ok |-> TRUE, val |-> <<>>]
NotCalled == [status |-> "none", cmds |-> <<>>, msg |-> Msg("", <<>>)]

-----------------------------------------------------------------------------
(* Inputs *)

\* forward read files
F1 == <<"d", "/", "s", "1">> \o DotFastq
F2 == <<"d", "/", "s", "2", ".", "F", "a", "s", "t", "Q", ".", "g", "z">>
F3 == <<"s", "3">>
F4 == Fastq \o <<".", "g", "z">>
\* reverse read files
R1 == <<"e", "/", "r", "1">> \o DotFastq
R2 == <<"e", "/", "r", "2">> \o DotFastq \o <<".", "g", "z">>

ForwardPool == {F1, F2, F3, F4}
ReversePool == {R1, R2}

OutDir == <<"o", "u", "t">>

\* all lists over pool of length at most n
Lists(pool, n) == UNION {[1..k -> pool] : k \in 0..n}

\* all dicts over a set of items with distinct keys, in every iteration order
Dicts(items) ==
    {d \in Lists(items, Cardinality({it[1] : it \in items})) :
        \A a, b \in 1..Len(d) : a # b => d[a][1] # d[b][1]}

MapItems == {<<<<"s", "1">>, "SampleA">>, <<<<"s", "2">>, "SampleB">>,
             <<<<"s", "3">>, "SampleC">>}

ParamValues == {StrVal("4"), StrVal(""), IntVal(0)}
ParamItems == {"Threads", "Mode"} \X ParamValues

-----------------------------------------------------------------------------
(* The generator called on its own *)

InitGen ==
    /\ forward_seqs \in Lists(ForwardPool, MaxFiles)
    /\ reverse_seqs \in Lists(ReversePool, MaxFiles)
    /\ has_reverse = TRUE
    /\ map_file \in Dicts(MapItems)
    /\ parameters \in Dicts(ParamItems)
    /\ gen = NotCalled
    /\ pc = "generator"
    /\ commands = <<>>
    /\ i = 0
    /\ log = <<>>
    /\ result = <<>>
    /\ exc = NoException
    /\ fname = <<>>
    /\ rp = NotExtracted

\* generate_humann2_analysis_commands(forward_seqs, reverse_seqs, map_file,
\*                                    out_dir, parameters)
GenerateCall ==
    /\ pc = "generator"
    /\ gen.status = "none"
    /\ gen' = Generate(forward_seqs, reverse_seqs, map_file, OutDir, parameters)
    /\ forward_seqs' = ForwardAfter(forward_seqs, reverse_seqs)
    /\ reverse_seqs' = ReverseAfter(forward_seqs, reverse_seqs)
    /\ UNCHANGED <<has_reverse, map_file, parameters, pc, commands, i, log,
                   result, exc, fname, rp>>

SpecGen == InitGen /\ [][GenerateCall]_vars

-----------------------------------------------------------------------------
(* Run-prefix extraction called on its own, over many file names *)

NamePieces ==
    {<<"s">>, <<"x">>, <<"/">>, Fastq, DotFastq, <<".", "g", "z">>,
     <<".", "F", "a", "s", "t", "Q">>}

RECURSIVE Concat(_)
Concat(l) == IF l = <<>> THEN <<>> ELSE Head(l) \o Concat(Tail(l))

FileNames == {Concat(l) : l \in Lists(NamePieces, MaxPieces)}

InitPrefix ==
    /\ fname \in FileNames
    /\ rp = NotExtracted
    /\ pc = "prefix"
    /\ forward_seqs = <<>>
    /\ reverse_seqs = <<>>
    /\ has_reverse = FALSE
    /\ map_file = <<>>
    /\ parameters = <<>>
    /\ gen = NotCalled
    /\ commands = <<>>
    /\ i = 0
    /\ log = <<>>
    /\ result = <<>>
    /\ exc = NoException

\* lines 65-68 of the generator, for the file fname
ExtractPrefix ==
    /\ pc = "prefix"
    /\ ~rp.done
    /\ rp' = [done |-> TRUE, ok |-> RunPrefix(fname).ok, val |-> RunPrefix(fname).val]
    /\ UNCHANGED <<forward_seqs, reverse_seqs, has_reverse, map_file, parameters,
                   gen, pc, commands, i, log, result, exc, fname>>

SpecPrefix == InitPrefix /\ [][ExtractPrefix]_vars

-----------------------------------------------------------------------------
(* humann2: the job orchestrator *)

\* a call of qclient.update_job_step(job_id, msg)
StepEv(msg) == [ev |-> "update_job_step", msg |-> msg]

\* a call of system_call(cmd) and what it returned
CallEv(cmd, std_out, std_err, return_value) ==
    [ev |-> "system_call", cmd |-> cmd, std_out |-> std_out,
     std_err |-> std_err, return_value |-> return_value]

\* the progress message of step 3 for loop index k of n commands
ProgressMsg(k, n) == Msg("Step 3 of 5: Executing HUMANn2, job %d/%d", <<k, n>>)

\* Failed with the comparison wrong: only a negative status counts
Failed_Negative(return_value) == return_value < 0

\* whether the loop of step 3 returns the failure
Failed(return_value) == return_value # 0

\* the failure humann2 returns: False, None, error_msg
FailureResult(std_out, std_err) ==
    <<FALSE, "None",
      Msg("Error running HUMANn2:\nStd out: %s\nStd err: %s", <<std_out, std_err>>)>>

\* PostSteps without the step 5 update
PostSteps_NoStep5 ==
    <<StepEv(Msg("Step 4 of 5: Merging resulting tables", <<>>))>>

\* the updates of steps 4 and 5
PostSteps ==
    <<StepEv(Msg("Step 4 of 5: Merging resulting tables", <<>>)),
      StepEv(Msg("Step 5 of 5: Re-normalizing tables", <<>>))>>

\* the success humann2 returns: True, artifacts_info, ""
SuccessResult == <<TRUE, <<>>, Msg("", <<>>)>>

\* Propagates with the generator's error swallowed
Propagates_Swallowed(g) == FALSE

\* whether the call of the generator leaves humann2 by its exception
Propagates(g) == g.status # "ok"

\* what system_call may return
ExitCodes == {0, 1}
Outputs == {<<"out-a", "err-a">>, <<"out-b", "err-b">>}

RunParams ==
    {<<<<"input", IntVal(1)>>, <<"Threads", StrVal("4")>>>>,
     <<<<"Mode", StrVal("")>>, <<"input", IntVal(1)>>>>,
     <<<<"Threads", StrVal("4")>>>>}

Init ==
    /\ forward_seqs \in Lists(ForwardPool, MaxFiles)
    /\ has_reverse \in BOOLEAN
    /\ reverse_seqs \in (IF has_reverse THEN Lists(ReversePool, MaxFiles) ELSE {<<>>})
    /\ map_file \in Dicts(MapItems)
    /\ parameters \in RunParams
    /\ gen = NotCalled
    /\ pc = "step1"
    /\ commands = <<>>
    /\ i = 0
    /\ log = <<>>
    /\ result = <<>>
    /\ exc = NoException
    /\ fname = <<>>
    /\ rp = NotExtracted

\* Step 1: report, take 'input' out of parameters, fetch the artifact and
\* prep information (forward_seqs, reverse_seqs, map_file already hold it)
Step1 ==
    /\ pc = "step1"
    /\ log' = Append(log, StepEv(Msg("Step 1 of 5: Collecting information", <<>>)))
    /\ IF DictHas(parameters, "input")
       THEN /\ parameters' = DictDel(parameters, "input")
            /\ pc' = "step2"
            /\ exc' = exc
       ELSE /\ parameters' = parameters
            /\ pc' = "raised"
            /\ exc' = [kind |-> "KeyError", msg |-> Msg("input", <<>>)]
    /\ UNCHANGED <<forward_seqs, reverse_seqs, has_reverse, map_file, gen,
                   commands, i, result, fname, rp>>

\* Step 2: report and generate the commands
Step2 ==
    /\ pc = "step2"
    /\ log' = Append(log, StepEv(Msg("Step 2 of 5: Generating HUMANn2 command", <<>>)))
    /\ LET rs == IF has_reverse THEN reverse_seqs ELSE <<>>
           g == Generate(forward_seqs, rs, map_file, OutDir, parameters)
       IN  /\ gen' = g
           /\ forward_seqs' = ForwardAfter(forward_seqs, rs)
           /\ reverse_seqs' = IF has_reverse THEN ReverseAfter(forward_seqs, rs)
                              ELSE reverse_seqs
           /\ IF Propagates(g)
              THEN /\ pc' = "raised"
                   /\ exc' = [kind |-> "ValueError", msg |-> g.msg]
                   /\ UNCHANGED <<commands, i>>
              ELSE /\ pc' = "step3"
                   /\ exc' = exc
                   /\ commands' = g.cmds
                   /\ i' = 0
    /\ UNCHANGED <<has_reverse, map_file, parameters, result, fname, rp>>

\* Step 3, one pass of the loop: report, run the command, return on failure
Step3 ==
    /\ pc = "step3"
    /\ i < Len(commands)
    /\ \E return_value \in ExitCodes, io \in Outputs :
          /\ log' = log \o <<StepEv(ProgressMsg(i, Len(commands))),
                             CallEv(commands[i + 1], io[1], io[2], return_value)>>
          /\ IF Failed(return_value)
             THEN /\ result' = FailureResult(io[1], io[2])
                  /\ pc' = "done"
                  /\ i' = i
             ELSE /\ result' = result
                  /\ pc' = pc
                  /\ i' = i + 1
    /\ UNCHANGED <<forward_seqs, reverse_seqs, has_reverse, map_file, parameters,
                   gen, commands, exc, fname, rp>>

\* Steps 4 and 5, after the loop: report both and return the success
Step45 ==
    /\ pc = "step3"
    /\ i = Len(commands)
    /\ log' = log \o PostSteps
    /\ result' = SuccessResult
    /\ pc' = "done"
    /\ UNCHANGED <<forward_seqs, reverse_seqs, has_reverse, map_file, parameters,
                   gen, commands, i, exc, fname, rp>>

Next == Step1 \/ Step2 \/ Step3 \/ Step45

Spec == Init /\ [][Next]_vars

-----------------------------------------------------------------------------
(* Vocabulary of the properties *)

Range(f) == {f[k] : k \in DOMAIN f}

\* whether the string sub occurs in the string s
IsSubstring(sub, s) == \E k \in 0..Len(s) : OccursAt(s, sub, k)

\* the positions of log that are calls of system_call
CallIdx == {k \in 1..Len(log) : log[k].ev = "system_call"}

\* the commands passed to system_call so far, in call order
RECURSIVE CallsOf(_)
CallsOf(l) ==
    IF l = <<>> THEN <<>>
    ELSE (IF Head(l).ev = "system_call" THEN <<Head(l).cmd>> ELSE <<>>)
             \o CallsOf(Tail(l))

IsUpdate(e, text) == e.ev = "update_job_step" /\ e.msg.text = text

Returned == result # <<>>

-----------------------------------------------------------------------------
(* Properties of humann2 (Spec) *)

\* C1: commands run one at a time in list order, and the run aborts at the
\* first command whose exit status is non-zero: that call is the last entry
\* of the log (no later command reaches system_call, no step 4 or step 5
\* update is sent) and humann2 has returned (False, None, message) with the
\* failing command's captured stdout and stderr in the message.
C1_AbortAtFirstFailure ==
    /\ \A k \in 1..Len(CallsOf(log)) :
          k <= Len(commands) /\ CallsOf(log)[k] = commands[k]
    /\ \A k \in CallIdx :
          log[k].return_value # 0 =>
              /\ k = Len(log)
              /\ \A j \in 1..Len(log) :
                    ~IsUpdate(log[j], "Step 4 of 5: Merging resulting tables")
                    /\ ~IsUpdate(log[j], "Step 5 of 5: Re-normalizing tables")
              /\ pc = "done"
              /\ Returned
              /\ result[1] = FALSE
              /\ result[2] = "None"
              /\ InList(log[k].std_out, result[3].args)
              /\ InList(log[k].std_err, result[3].args)

\* C1 witness: the second of at least three commands failed and humann2
\* returned.
C1_Witness ==
    /\ Len(commands) >= 3
    /\ Cardinality(CallIdx) = 2
    /\ log[Len(log)].ev = "system_call"
    /\ log[Len(log)].return_value # 0
    /\ Returned

\* C2: a validation error of the generator (mismatched lengths, unconsumed
\* mapping entries) leaves humann2 as that exception: humann2 returned no
\* result, system_call was never called, and nothing more happens.
C2_ValidationErrorPropagates ==
    gen.status \in {"mismatch", "unmatched"} =>
        /\ pc = "raised"
        /\ exc.kind = "ValueError"
        /\ exc.msg = gen.msg
        /\ ~Returned
        /\ CallIdx = {}
        /\ ~ENABLED Next

\* C2 witness: the generator raised the pairing error inside humann2.
C2_Witness ==
    /\ gen.status = "mismatch"
    /\ pc = "raised"
    /\ Len(log) = 2

\* C7: humann2 returns success exactly when every generated command exited
\* with status 0 (also when there are no commands); it then has called
\* system_call once per command in list order, sent the step 4 and step 5
\* updates last, and returned exactly (True, [], "").
C7_SuccessIffAllZero ==
    pc = "done" =>
        /\ Returned
        /\ result[1] = (\A k \in CallIdx : log[k].return_value = 0)
        /\ result[1] = TRUE =>
              /\ CallsOf(log) = commands
              /\ Len(log) >= 2
              /\ IsUpdate(log[Len(log) - 1], "Step 4 of 5: Merging resulting tables")
              /\ IsUpdate(log[Len(log)], "Step 5 of 5: Re-normalizing tables")
              /\ \A k \in CallIdx : k < Len(log) - 1
              /\ result[2] = <<>>
              /\ result[3] = [text |-> "", args |-> <<>>]

\* C7 witness: at least two commands, all succeeded, humann2 returned success.
C7_Witness ==
    /\ pc = "done"
    /\ Returned
    /\ result[1] = TRUE
    /\ Len(commands) >= 2

\* C10 as claimed: every call of system_call is directly preceded by a step 3
\* update whose counter reads N/M, N the 1-based position of the command
\* about to run and M the number of generated commands.
C10_OneBasedCounter ==
    \A k \in CallIdx :
        /\ k > 1
        /\ log[k - 1].ev = "update_job_step"
        /\ log[k - 1].msg.args =
               <<Cardinality({j \in CallIdx : j <= k}), Len(commands)>>

-----------------------------------------------------------------------------
(* Properties of generate_humann2_analysis_commands (SpecGen) *)

Called == gen.status # "none"

\* the run prefixes of the forward files
ForwardPrefixes ==
    {RunPrefix(forward_seqs[k]).val : k \in 1..Len(forward_seqs)}

\* the mapping entries whose run prefix is the run prefix of no forward file
Leftover == {key \in {it[1] : it \in Range(map_file)} : key \notin ForwardPrefixes}

\* C3: with a non-empty reverse list whose length differs from the forward
\* list's, the call raises the pairing error, returns no command, and every
\* forward path and every reverse path occurs in the message; with an empty
\* reverse list the pairing error is never raised.
C3_PairingError ==
    Called =>
        /\ (reverse_seqs # <<>> /\ Len(reverse_seqs) # Len(forward_seqs)) =>
              /\ gen.status = "mismatch"
              /\ gen.cmds = <<>>
              /\ \A k \in 1..Len(forward_seqs) :
                    \E a \in 1..Len(gen.msg.args) :
                        IsSubstring(forward_seqs[k], gen.msg.args[a])
              /\ \A k \in 1..Len(reverse_seqs) :
                    \E a \in 1..Len(gen.msg.args) :
                        IsSubstring(reverse_seqs[k], gen.msg.args[a])
        /\ reverse_seqs = <<>> => gen.status # "mismatch"
        /\ gen.status = "mismatch" =>
              reverse_seqs # <<>> /\ Len(reverse_seqs) # Len(forward_seqs)

\* C3 witness: two forward files, one reverse file, the pairing error raised.
C3_Witness ==
    /\ gen.status = "mismatch"
    /\ Len(forward_seqs) = 2
    /\ Len(reverse_seqs) = 1

\* C4: once all forward files are processed, the unmatched-samples error is
\* raised exactly when some mapping entry has the run prefix of no forward
\* file, and its message lists exactly those run prefixes, each once; a
\* forward file absent from the mapping causes no error by itself.
C4_UnmatchedExactlyLeftover ==
    gen.status \in {"ok", "unmatched"} =>
        /\ (gen.status = "unmatched") = (Leftover # {})
        /\ gen.status = "unmatched" =>
              \E ks \in [1..Cardinality(Leftover) -> Leftover] :
                  /\ \A a, b \in DOMAIN ks : a # b => ks[a] # ks[b]
                  /\ gen.msg.args = <<Join(CommaSpace, ks)>>

\* C4 witness: the error is raised while one mapping entry was consumed, one
\* is left over, and one forward file has a run prefix absent from the mapping.
C4_Witness ==
    /\ gen.status = "unmatched"
    /\ Cardinality(Leftover) = 1
    /\ Len(map_file) = 2
    /\ \E k \in 1..Len(forward_seqs) :
          ~DictHas(map_file, RunPrefix(forward_seqs[k]).val)

\* the forward indexes that matched a mapping entry (the first file of each
\* run prefix)
MatchedIdx ==
    {k \in 1..Len(forward_seqs) :
        /\ DictHas(map_file, RunPrefix(forward_seqs[k]).val)
        /\ \A j \in 1..(k - 1) :
              RunPrefix(forward_seqs[j]).val # RunPrefix(forward_seqs[k]).val}

\* the position of k among the matched indexes
RankOf(k) == Cardinality({m \in MatchedIdx : m <= k})

IsAscending(l) == \A k \in 1..(Len(l) - 1) : ~StrLess(l[k + 1], l[k])

\* C5: for non-empty forward and reverse lists of equal length, both are
\* ascending after the sort, and the commands come in pairs, one pair for
\* each forward file that matched a mapping entry: the forward file's
\* command, then the command of the reverse file at the same index, both
\* with the sample mapped to the forward file's run prefix as
\* --output-basename.  No other reverse file gets a command.
C5_MatesShareSample ==
    (gen.status = "ok" /\ reverse_seqs # <<>>) =>
        /\ Len(reverse_seqs) = Len(forward_seqs)
        /\ IsAscending(forward_seqs)
        /\ IsAscending(reverse_seqs)
        /\ Len(gen.cmds) = 2 * Cardinality(MatchedIdx)
        /\ \A k \in MatchedIdx :
              LET fc == gen.cmds[2 * RankOf(k) - 1]
                  rc == gen.cmds[2 * RankOf(k)]
                  s == DictGet(map_file, RunPrefix(forward_seqs[k]).val)
              IN  /\ fc[1] = [flag |-> "--input", val |-> forward_seqs[k]]
                  /\ rc[1] = [flag |-> "--input", val |-> reverse_seqs[k]]
                  /\ fc[3] = [flag |-> "--output-basename", val |-> s]
                  /\ rc[3] = [flag |-> "--output-basename", val |-> s]

\* C5 witness: two mated pairs with different reverse files, four commands.
C5_Witness ==
    /\ gen.status = "ok"
    /\ Len(gen.cmds) = 4
    /\ reverse_seqs[1] # reverse_seqs[2]

\* the items of parameters whose value is neither empty nor falsy
NonEmptyIdx ==
    {k \in 1..Len(parameters) :
        parameters[k][2] \notin {StrVal(""), IntVal(0), BoolVal(FALSE), NoneVal}}

\* C6: every generated command starts with --input, --output,
\* --output-basename, --output-format biom, followed by one --key "value"
\* token for each parameter whose value is non-empty/truthy, in the
\* iteration order of the map, and by nothing else.
C6_OnlyTruthyParameters ==
    gen.status = "ok" =>
        \A c \in 1..Len(gen.cmds) :
            LET cmd == gen.cmds[c]
            IN  /\ Len(cmd) = 4 + Cardinality(NonEmptyIdx)
                /\ cmd[1].flag = "--input"
                /\ cmd[2].flag = "--output"
                /\ cmd[3].flag = "--output-basename"
                /\ cmd[4] = [flag |-> "--output-format", val |-> "biom"]
                /\ \A k \in NonEmptyIdx :
                      cmd[4 + Cardinality({j \in NonEmptyIdx : j <= k})] =
                          [flag |-> "--" \o parameters[k][1],
                           val |-> Fmt(parameters[k][2])]

\* C6 witness: commands generated from {"Threads": "4", "Mode": ""}.
C6_Witness ==
    /\ gen.status = "ok"
    /\ Len(gen.cmds) >= 1
    /\ parameters = <<<<"Threads", StrVal("4")>>, <<"Mode", StrVal("")>>>>

\* C9 as claimed: a call leaves the caller's forward list, reverse list and
\* parameters map as they were.
C9_InputsUnchanged ==
    [][GenerateCall =>
          /\ forward_seqs' = forward_seqs
          /\ reverse_seqs' = reverse_seqs
          /\ parameters' = parameters]_vars

-----------------------------------------------------------------------------
(* Properties of the run-prefix extraction (SpecPrefix) *)

BaseName == Basename(fname)

\* the 0-based offsets at which .fastq occurs in the base name, whatever the case
SuffixAt == {k \in 0..Len(BaseName) : OccursAt(Lower(BaseName), DotFastq, k)}

\* the number of dots of the base name after position b
DotsAfter(b) == Cardinality({k \in (b + 1)..Len(BaseName) : BaseName[k] = "."})

\* whether fastq, whatever the case, is one of the parts of the base name
\* split at its last two dots
FastqIsPart ==
    \E a \in 1..Len(BaseName) :
        /\ a + 4 <= Len(BaseName)
        /\ SubSeq(Lower(BaseName), a, a + 4) = Fastq
        /\ (a = 1 \/ BaseName[a - 1] = ".")
        /\ (a + 4 = Len(BaseName) \/ BaseName[a + 5] = ".")
        /\ (DotsAfter(a + 4) <= 1 \/ (DotsAfter(a + 4) = 2 /\ a = 1))

====
